---------------------------- MODULE Spec2Model ----------------------------
(***************************************************************************)
(* visualize_local_game_graph (src/visualizations.py): bounded breadth-    *)
(* first extraction of the neighbourhood of chosen_id in an undirected     *)
(* graph, removal of the nodes without a real name, construction of the    *)
(* induced subgraph, and the calls that draw it.                           *)
(*                                                                         *)
(* Identifiers and names are Python strings, modelled as sequences of      *)
(* one-character strings.  A value of id_to_name is a tagged record so     *)
(* that a non-string value can be told from a string.                      *)
(***************************************************************************)
EXTENDS Integers, Sequences, FiniteSets

VARIABLES G, chosen_id, id_to_name, max_depth, max_nodes,
          pc, visited, queue, current, depth, todo,
          filtered, subG, labels,
          enqueued, expanded, calls

vars == <<G, chosen_id, id_to_name, max_depth, max_nodes,
          pc, visited, queue, current, depth, todo,
          filtered, subG, labels,
          enqueued, expanded, calls>>

inputs == <<G, chosen_id, id_to_name, max_depth, max_nodes>>

---------------------------------------------------------------------------
(* Bounds of the explored inputs *)

\* largest max_depth tried (the smallest is -1)
MaxDepthBound == 3
\* largest max_nodes tried below the default (the smallest is -1)
MaxNodesBound == 4

\* the identifiers a graph, chosen_id and the keys of id_to_name are drawn from
Ids == { <<"a">>, <<"b">>, <<"c">> }

\* default values of the parameters
DefaultMaxDepth == 2
DefaultMaxNodes == 20

---------------------------------------------------------------------------
(* Values *)

StrVal(s) == [type |-> "str", val |-> s]
IntVal(i) == [type |-> "int", val |-> i]

\* the placeholder of a local that has not been assigned yet
NoNode == << >>
EmptyGraph == [nodes |-> {}, edges |-> {}]

\* characters str.strip() removes
Whitespace == {" ", "\t", "\n"}

RECURSIVE lstrip(_)
lstrip(s) == IF s = << >> THEN << >>
             ELSE IF Head(s) \in Whitespace THEN lstrip(Tail(s))
             ELSE s

RECURSIVE rstrip(_)
rstrip(s) == IF s = << >> THEN << >>
             ELSE IF s[Len(s)] \in Whitespace THEN rstrip(SubSeq(s, 1, Len(s) - 1))
             ELSE s

strip(s) == rstrip(lstrip(s))

\* id_to_name.get(n, default)
Get(n, default) == IF n \in DOMAIN id_to_name THEN id_to_name[n] ELSE default

\* isinstance(nm, str)
IsStr(nm) == nm.type = "str"

\* has_valid_name without the comparison with the identifier
has_nonblank_name(n) ==
    LET nm == Get(n, StrVal(<< >>))
    IN  IsStr(nm) /\ strip(nm.val) # << >>

\* has_valid_name(n)
has_valid_name(n) ==
    LET nm == Get(n, StrVal(<< >>))
    IN  IsStr(nm) /\ strip(nm.val) # << >> /\ nm.val # n

---------------------------------------------------------------------------
(* The graph: nodes and undirected edges {u, v}; a self-loop is {u} *)

AllEdges(ns) == { {u, v} : u \in ns, v \in ns }

Graphs == UNION { { [nodes |-> ns, edges |-> es] : es \in SUBSET AllEdges(ns) }
                  : ns \in SUBSET Ids }

\* the membership test left out
InGraphUnchecked(n) == TRUE

\* chosen_id in G
InGraph(n) == n \in G.nodes

\* G.neighbors(n)
Neighbors(n) == { m \in G.nodes : {n, m} \in G.edges }

\* a subgraph made of the edges the traversal walked along only
SubgraphOfTraversal(ns) ==
    [nodes |-> ns \cap G.nodes,
     edges |-> { e \in G.edges : e \subseteq ns /\
                   \E i \in 1..Len(expanded) : expanded[i] \in e }]

\* G.subgraph(ns).copy()
Subgraph(ns) == [nodes |-> ns \cap G.nodes,
                 edges |-> { e \in G.edges : e \subseteq ns }]

---------------------------------------------------------------------------
(* The tests of the traversal *)

\* the while condition without the cap
LoopCondNoCap(q, v) == q # << >>

\* the while condition with the cap off by one
LoopCondOffByOne(q, v) == q # << >> /\ Cardinality(v) + 1 < max_nodes

\* while queue and len(visited) < max_nodes
LoopCond(q, v) == q # << >> /\ Cardinality(v) < max_nodes

\* the depth test with > for >=
DepthExceeded(d) == d > max_depth

\* if depth >= max_depth: continue
DepthReached(d) == d >= max_depth

\* the visited test left out
UnvisitedUnchecked(n, v) == TRUE

\* if neighbor not in visited
Unvisited(n, v) == n \notin v

\* the inner break left out
CapUnchecked(v) == FALSE

\* if len(visited) >= max_nodes: break
CapReached(v) == Cardinality(v) >= max_nodes

\* visited = set()
InitialVisitedEmpty == {}

\* visited = {chosen_id}
InitialVisited == {chosen_id}

\* queue.append((neighbor, depth))
ChildEntrySameDepth(n, d) == <<n, d>>

\* queue.append((neighbor, depth + 1))
ChildEntry(n, d) == <<n, d + 1>>

---------------------------------------------------------------------------
(* Inputs *)

\* the names tried in the traversal runs: the node's own id (no real name)
\* or a real name
PlainNames(n) == { StrVal(n), StrVal(<<"x">>) }

\* the names tried in the filter runs: blank, whitespace only, the node's
\* own id, real names, and a value that is no string
AnyNames(n) == { StrVal(<< >>), StrVal(<<" ">>), StrVal(n), StrVal(<<"x">>),
                 StrVal(<<" ", "x", " ">>), IntVal(7) }

PlainNameMaps == { f \in [Ids -> UNION { PlainNames(n) : n \in Ids }] :
                     \A n \in Ids : f[n] \in PlainNames(n) }

AnyNameMaps == UNION { { f \in [D -> UNION { AnyNames(n) : n \in Ids }] :
                           \A n \in D : f[n] \in AnyNames(n) }
                       : D \in SUBSET Ids }

Locals ==
    /\ pc = "start"
    /\ visited = {}
    /\ queue = << >>
    /\ current = NoNode
    /\ depth = 0
    /\ todo = {}
    /\ filtered = {}
    /\ subG = EmptyGraph
    /\ labels = << >>
    /\ enqueued = << >>
    /\ expanded = << >>
    /\ calls = << >>

Init ==
    /\ G \in Graphs
    /\ chosen_id \in Ids
    /\ id_to_name \in PlainNameMaps
    /\ max_depth \in (-1)..MaxDepthBound
    /\ max_nodes \in (-1)..MaxNodesBound
    /\ Locals

InitNames ==
    /\ G \in Graphs
    /\ chosen_id \in Ids
    /\ id_to_name \in AnyNameMaps
    /\ max_depth \in {0, DefaultMaxDepth}
    /\ max_nodes = DefaultMaxNodes
    /\ Locals

---------------------------------------------------------------------------
(* Steps of visualize_local_game_graph *)

\* if chosen_id not in G: print(...); return
ReturnMissing ==
    /\ pc = "start"
    /\ ~InGraph(chosen_id)
    /\ calls' = Append(calls, [op |-> "print_missing", arg |-> chosen_id])
    /\ pc' = "done"
    /\ UNCHANGED <<inputs, visited, queue, current, depth, todo,
                   filtered, subG, labels, enqueued, expanded>>

\* visited = {chosen_id}; queue = deque([(chosen_id, 0)])
InitBFS ==
    /\ pc = "start"
    /\ InGraph(chosen_id)
    /\ visited' = InitialVisited
    /\ queue' = << <<chosen_id, 0>> >>
    /\ enqueued' = << <<chosen_id, 0>> >>
    /\ pc' = "while"
    /\ UNCHANGED <<inputs, current, depth, todo, filtered, subG, labels,
                   expanded, calls>>

\* current, depth = queue.popleft(); the depth test; the start of the for loop
Pop ==
    /\ pc = "while"
    /\ LoopCond(queue, visited)
    /\ current' = Head(queue)[1]
    /\ depth' = Head(queue)[2]
    /\ queue' = Tail(queue)
    /\ IF DepthReached(depth')
         THEN /\ pc' = "while"
              /\ UNCHANGED <<todo, expanded>>
         ELSE /\ pc' = "for"
              /\ todo' = Neighbors(current')
              /\ expanded' = Append(expanded, current')
    /\ UNCHANGED <<inputs, visited, filtered, subG, labels, enqueued, calls>>

\* one pass of the for loop, on any neighbour the iterator has not given yet
VisitNeighbor ==
    /\ pc = "for"
    /\ \E neighbor \in todo :
         /\ todo' = todo \ {neighbor}
         /\ IF Unvisited(neighbor, visited)
              THEN /\ visited' = visited \cup {neighbor}
                   /\ queue' = Append(queue, ChildEntry(neighbor, depth))
                   /\ enqueued' = Append(enqueued, ChildEntry(neighbor, depth))
              ELSE UNCHANGED <<visited, queue, enqueued>>
         /\ pc' = IF CapReached(visited') THEN "while" ELSE "for"
    /\ UNCHANGED <<inputs, current, depth, filtered, subG, labels,
                   expanded, calls>>

\* the for loop has no neighbour left
ForEnd ==
    /\ pc = "for"
    /\ todo = {}
    /\ pc' = "while"
    /\ UNCHANGED <<inputs, visited, queue, current, depth, todo,
                   filtered, subG, labels, enqueued, expanded, calls>>

\* the while condition is false
LoopExit ==
    /\ pc = "while"
    /\ ~LoopCond(queue, visited)
    /\ pc' = "filter"
    /\ UNCHANGED <<inputs, visited, queue, current, depth, todo,
                   filtered, subG, labels, enqueued, expanded, calls>>

\* filtered = {n for n in visited if has_valid_name(n)}
Filter ==
    /\ pc = "filter"
    /\ filtered' = { n \in visited : has_valid_name(n) }
    /\ pc' = "subgraph"
    /\ UNCHANGED <<inputs, visited, queue, current, depth, todo,
                   subG, labels, enqueued, expanded, calls>>

\* subG = G.subgraph(filtered).copy(); print(...)
BuildSubgraph ==
    /\ pc = "subgraph"
    /\ subG' = Subgraph(filtered)
    /\ calls' = Append(calls, [op |-> "print_count",
                               arg |-> Cardinality(subG'.nodes)])
    /\ pc' = "labels"
    /\ UNCHANGED <<inputs, visited, queue, current, depth, todo,
                   filtered, labels, enqueued, expanded>>

\* labels[node] = id_to_name.get(node, node)
PrepareLabels ==
    /\ pc = "labels"
    /\ labels' = [n \in subG.nodes |-> Get(n, StrVal(n))]
    /\ pc' = "render"
    /\ UNCHANGED <<inputs, visited, queue, current, depth, todo,
                   filtered, subG, enqueued, expanded, calls>>

\* the layout the parameter selects
LayoutCall(layout) ==
    IF layout = "spring" THEN "spring_layout_k"
    ELSE IF layout = "kamada_kawai" THEN "kamada_kawai_layout"
    ELSE "spring_layout"

\* plt.figure ... plt.show()
Render ==
    /\ pc = "render"
    /\ \E layout \in {"spring", "kamada_kawai", "circular"} :
         calls' = calls \o
             << [op |-> "figure", arg |-> 0],
                [op |-> "title", arg |-> Get(chosen_id, StrVal(chosen_id))],
                [op |-> LayoutCall(layout), arg |-> subG],
                [op |-> "draw", arg |-> subG],
                [op |-> "draw_networkx_labels", arg |-> labels],
                [op |-> "axis_off", arg |-> 0],
                [op |-> "show", arg |-> 0] >>
    /\ pc' = "done"
    /\ UNCHANGED <<inputs, visited, queue, current, depth, todo,
                   filtered, subG, labels, enqueued, expanded>>

Next ==
    \/ ReturnMissing
    \/ InitBFS
    \/ Pop
    \/ VisitNeighbor
    \/ ForEnd
    \/ LoopExit
    \/ Filter
    \/ BuildSubgraph
    \/ PrepareLabels
    \/ Render

Spec == Init /\ [][Next]_vars

SpecNames == InitNames /\ [][Next]_vars

\* the function is single-threaded and runs each step as soon as it can
FairSpec == Init /\ [][Next]_vars /\ WF_vars(Next)

---------------------------------------------------------------------------
(* Notions the properties are stated with *)

Range(s) == { s[i] : i \in 1..Len(s) }
NoDuplicates(s) == \A i, j \in 1..Len(s) : s[i] = s[j] => i = j
NodesOf(entries) == [i \in 1..Len(entries) |-> entries[i][1]]
MaxOf(x, y) == IF x >= y THEN x ELSE y

\* the call went past the membership test and started the traversal
Traversing == pc # "start" /\ chosen_id \in G.nodes
\* the while loop has been left
LoopLeft == pc \in {"filter", "subgraph", "labels", "render", "done"} /\
            chosen_id \in G.nodes
\* the subgraph has been built
SubgraphBuilt == pc \in {"labels", "render", "done"} /\ chosen_id \in G.nodes

\* the nodes at most k edges away from chosen_id in G
RECURSIVE Within(_)
Within(k) ==
    IF k < 0 THEN {}
    ELSE IF k = 0 THEN {chosen_id} \cap G.nodes
    ELSE LET prev == Within(k - 1)
         IN  prev \cup { m \in G.nodes : \E n \in prev : {n, m} \in G.edges }

\* the length of a shortest path from chosen_id to n (n reachable)
Distance(n) ==
    CHOOSE k \in 0..Cardinality(G.nodes) :
        n \in Within(k) /\ n \notin Within(k - 1)

\* the name of n is a string with a character that is no whitespace, and is
\* not n itself
RealName(n) ==
    /\ n \in DOMAIN id_to_name
    /\ id_to_name[n].type = "str"
    /\ \E i \in 1..Len(id_to_name[n].val) :
          id_to_name[n].val[i] \notin Whitespace
    /\ id_to_name[n].val # n

\* the number of neighbours of the node expanded last, 0 if none was
LastExpansionDegree ==
    IF expanded = << >> THEN 0
    ELSE Cardinality({ m \in G.nodes :
                         {expanded[Len(expanded)], m} \in G.edges })

---------------------------------------------------------------------------
(* Properties *)

\* C1: once the start node is known to be in the graph, Visited contains
\* chosen_id in every state from its initialisation on, and no step ever
\* removes a node from Visited.
C1_StartNodeStaysVisited ==
    /\ [](Traversing => chosen_id \in visited)
    /\ [][visited \subseteq visited']_vars

\* the traversal ended with more nodes than the start node, whose own name
\* is no real name
C1_Witness ==
    /\ pc = "filter" /\ chosen_id \in G.nodes
    /\ Cardinality(visited) > 1
    /\ ~RealName(chosen_id)

\* C2: the nodes of the returned subgraph are exactly the visited nodes
\* whose name is a string, not blank once stripped, and different from the
\* node's identifier; the start node is treated like any other.
C2_SubgraphNodesAreNamedVisited ==
    SubgraphBuilt => subG.nodes = { n \in visited : RealName(n) }

\* the start node has no real name and is dropped, a neighbour is kept
C2_Witness ==
    /\ SubgraphBuilt
    /\ chosen_id \notin subG.nodes
    /\ subG.nodes # {}
    /\ \E n \in visited \ subG.nodes : n # chosen_id

\* C3: the edges of the returned subgraph are exactly the edges of G with
\* both endpoints among the subgraph's nodes.
C3_SubgraphEdgesAreInduced ==
    SubgraphBuilt =>
        subG.edges = { e \in G.edges : \A n \in e : n \in filtered }

\* an edge between two kept nodes neither of which was expanded, the start
\* node being dropped
C3_Witness ==
    /\ SubgraphBuilt
    /\ chosen_id \notin filtered
    /\ \E e \in subG.edges : Cardinality(e) = 2 /\ e \cap Range(expanded) = {}

\* C4: when chosen_id is no node of G, the only step is the one that prints
\* the message and returns: nothing else is created, computed or drawn, and
\* the graph and the name map stay as they were.
C4_MissingStartReturnsAtOnce ==
    /\ [](chosen_id \notin G.nodes =>
            /\ pc \in {"start", "done"}
            /\ visited = {} /\ queue = << >> /\ enqueued = << >>
            /\ expanded = << >> /\ filtered = {} /\ subG = EmptyGraph
            /\ labels = << >>
            /\ calls = IF pc = "start" THEN << >>
                       ELSE << [op |-> "print_missing", arg |-> chosen_id] >>)
    /\ [][G' = G /\ id_to_name' = id_to_name]_vars

\* the call returned for an id that is missing from a graph that has nodes
C4_Witness ==
    /\ pc = "done"
    /\ chosen_id \notin G.nodes
    /\ G.nodes # {}

\* C5 as stated: at the end of the traversal |Visited| is at most max_nodes
\* plus the number of neighbours of the node expanded last.
C5_AsStated ==
    LoopLeft => Cardinality(visited) <= max_nodes + LastExpansionDegree

\* C5: at the end of the traversal |Visited| is at most max(max_nodes, 1)
\* plus the number of neighbours of the node expanded last; with
\* max_nodes <= 0 the loop body never runs and Visited is the start node.
C5_CapBound ==
    LoopLeft =>
        /\ Cardinality(visited) <= MaxOf(max_nodes, 1) + LastExpansionDegree
        /\ max_nodes <= 0 => visited = {chosen_id} /\ expanded = << >>

\* the traversal stopped at the cap after expanding more than one node
C5_Witness ==
    /\ LoopLeft
    /\ Len(expanded) >= 2
    /\ queue # << >>
    /\ Cardinality(visited) >= max_nodes

\* C6: no node is put in the frontier twice, the frontier never holds two
\* entries of one node, every node that is or was in the frontier is in
\* Visited (and Visited holds no other node), and no node is expanded twice.
C6_NoNodeVisitedTwice ==
    /\ NoDuplicates(NodesOf(enqueued))
    /\ NoDuplicates(NodesOf(queue))
    /\ Range(NodesOf(queue)) \subseteq Range(NodesOf(enqueued))
    /\ Range(NodesOf(enqueued)) = visited
    /\ NoDuplicates(expanded)

\* every node of a triangle was expanded, each meeting visited neighbours
C6_Witness ==
    /\ LoopLeft
    /\ Len(expanded) = 3
    /\ \A u, v \in Range(expanded) : u # v => {u, v} \in G.edges

\* C7: the call ends, and the loop is left only with an empty frontier or
\* with |Visited| >= max_nodes.
C7_LoopTerminates ==
    /\ <>(pc = "done")
    /\ [](pc = "filter" =>
            queue = << >> \/ Cardinality(visited) >= max_nodes)

\* the loop was left at the cap, with entries still in the frontier
C7_Witness ==
    /\ pc = "filter"
    /\ queue # << >>
    /\ Cardinality(visited) >= max_nodes
    /\ expanded # << >>

\* C8 as stated: with max_depth = 0 the traversal ends with Visited =
\* {chosen_id}, and the subgraph has at most the node chosen_id (only if its
\* name is valid) and no edge.
C8_AsStated ==
    (SubgraphBuilt /\ max_depth = 0) =>
        /\ visited = {chosen_id}
        /\ subG.nodes \subseteq {chosen_id}
        /\ (chosen_id \in subG.nodes => RealName(chosen_id))
        /\ subG.edges = {}

\* C8: with max_depth = 0 the traversal ends with Visited = {chosen_id}, and
\* the subgraph has at most the node chosen_id (only if its name is valid)
\* and no edge but the edge from chosen_id to itself, which it has exactly
\* when chosen_id is kept and has that edge in G.
C8_DepthZero ==
    (SubgraphBuilt /\ max_depth = 0) =>
        /\ visited = {chosen_id}
        /\ subG.nodes \subseteq {chosen_id}
        /\ (chosen_id \in subG.nodes => RealName(chosen_id))
        /\ subG.edges = IF RealName(chosen_id) /\ {chosen_id} \in G.edges
                          THEN {{chosen_id}} ELSE {}

\* max_depth = 0, and the start node is kept and has a neighbour and an
\* edge to itself
C8_Witness ==
    /\ SubgraphBuilt /\ max_depth = 0
    /\ chosen_id \in subG.nodes
    /\ {chosen_id} \in G.edges
    /\ \E n \in G.nodes : n # chosen_id /\ {chosen_id, n} \in G.edges

\* C9: with max_nodes >= 1, |Visited| <= max_nodes in every state, and a
\* traversal that is left with entries still in the frontier, or with the
\* cap met, has |Visited| = max_nodes.
C9_CapNeverExceeded ==
    max_nodes >= 1 =>
        /\ Cardinality(visited) <= max_nodes
        /\ (LoopLeft /\ (queue # << >> \/ Cardinality(visited) >= max_nodes))
              => Cardinality(visited) = max_nodes

\* the inner break left the neighbour list with an unvisited neighbour in it
C9_Witness ==
    /\ pc = "filter"
    /\ max_nodes >= 2
    /\ Cardinality(visited) = max_nodes
    /\ todo \ visited # {}

\* C10: with max_depth >= 0, every entry put in the frontier holds the
\* node's distance from chosen_id, which is at most max_depth, so Visited
\* holds only nodes within max_depth edges; and a traversal that ends below
\* the cap has visited all of them.
C10_DepthIsDistance ==
    (Traversing /\ max_depth >= 0) =>
        /\ \A i \in 1..Len(enqueued) :
              /\ enqueued[i][1] \in Within(Cardinality(G.nodes))
              /\ enqueued[i][2] = Distance(enqueued[i][1])
              /\ enqueued[i][2] <= max_depth
        /\ Range(queue) \subseteq Range(enqueued)
        /\ visited \subseteq Within(max_depth)
        /\ (LoopLeft /\ Cardinality(visited) < max_nodes)
              => visited = Within(max_depth)

\* a traversal that ended below the cap with a node at distance max_depth
\* visited and a farther node left out
C10_Witness ==
    /\ LoopLeft
    /\ max_depth >= 1
    /\ Cardinality(visited) < max_nodes
    /\ \E n \in visited : n \notin Within(max_depth - 1)
    /\ \E n \in G.nodes \ visited : n \in Within(Cardinality(G.nodes))

=============================================================================
